---------------------------- MODULE Spec2Model ----------------------------
(***************************************************************************)
(* Hair scattering model of SORT (src/src/bsdf/hair.cpp): the three        *)
(* operations Hair::f, Hair::sample_f and Hair::pdf, the constructor       *)
(* Hair::Hair and the static helpers they call.                            *)
(*                                                                         *)
(* Numbers.  A C++ float is modelled as a decimal fixed-point integer with *)
(* four fractional digits (Scale stands for 1.0f), together with the three *)
(* IEEE special values +infinity, -infinity and NaN, which the code can    *)
(* produce by dividing by zero.  Arithmetic on the special values follows  *)
(* IEEE 754 (x/0 = +-inf for x # 0, 0/0 = NaN, inf-inf = NaN, 0*inf = NaN, *)
(* every comparison with NaN is false).  Finite results are rounded to the *)
(* fixed-point grid, so the model decides the algebraic structure of the   *)
(* code and its special-value behaviour, not its last-bit rounding: every  *)
(* tolerance below is stated in units of the grid.  A finite intermediate  *)
(* that left the 32-bit range would stop TLC with an overflow error, so    *)
(* no finite value silently saturates.                                     *)
(***************************************************************************)
EXTENDS Integers, Sequences, FiniteSets, TLC

(***************************************************************************)
(* State: one Hair object, the process-wide random source sort_canonical,  *)
(* and the call that has just returned, as its caller sees it.             *)
(***************************************************************************)
VARIABLES
    hair,       \* <<>> before construction, <<h>> after (h as HairNew builds it)
    raised,     \* TRUE once an operation has reported an error to its caller
    rngCount,   \* how many values sort_canonical has handed out so far
    last        \* <<>>, or <<c>>: the call that has just returned

vars == <<hair, raised, rngCount, last>>

(***************************************************************************)
(* Fixed-point floats                                                      *)
(***************************************************************************)
Scale == 10000

PosInf == 2147483647
NegInf == -PosInf
NaN == PosInf - 1

IsNaN(x) == x = NaN
IsInf(x) == x = PosInf \/ x = NegInf
IsFinite(x) == ~IsNaN(x) /\ ~IsInf(x)

Sgn(x) == IF x > 0 THEN 1 ELSE IF x < 0 THEN -1 ELSE 0
Mag(x) == IF x < 0 THEN -x ELSE x

\* Operands are evaluated once and bound as values (x \in {a}), the way a
\* C++ call evaluates its arguments once.

\* IEEE comparisons: false as soon as one side is NaN.
flt(a, b) == \E x \in {a}, y \in {b} : ~IsNaN(x) /\ ~IsNaN(y) /\ x < y
fle(a, b) == \E x \in {a}, y \in {b} : ~IsNaN(x) /\ ~IsNaN(y) /\ x <= y
fgt(a, b) == flt(b, a)

fneg(a) == CHOOSE r \in { IF IsNaN(x) THEN NaN ELSE -x : x \in {a} } : TRUE

fadd(a, b) ==
    CHOOSE r \in
        { IF IsNaN(x) \/ IsNaN(y) THEN NaN
          ELSE IF IsInf(x) /\ IsInf(y) THEN (IF x = y THEN x ELSE NaN)
          ELSE IF IsInf(x) THEN x
          ELSE IF IsInf(y) THEN y
          ELSE x + y : x \in {a}, y \in {b} } : TRUE

fsub(a, b) == fadd(a, fneg(b))

\* |a| * |b| / Scale, rounded to nearest, without leaving 32 bits.
MulMag(a, b) ==
    CHOOSE r \in
        { (x \div Scale) * (y \div Scale) * Scale
            + (x \div Scale) * (y % Scale) + (x % Scale) * (y \div Scale)
            + ((x % Scale) * (y % Scale) + Scale \div 2) \div Scale
          : x \in {a}, y \in {b} } : TRUE

fmul(a, b) ==
    CHOOSE r \in
        { IF IsNaN(x) \/ IsNaN(y) THEN NaN
          ELSE IF IsInf(x) \/ IsInf(y)
               THEN (IF x = 0 \/ y = 0 THEN NaN
                     ELSE IF Sgn(x) * Sgn(y) > 0 THEN PosInf ELSE NegInf)
          ELSE Sgn(x) * Sgn(y) * MulMag(Mag(x), Mag(y)) : x \in {a}, y \in {b} } : TRUE

\* Four more decimal digits of r / b (0 <= r < b), by long division.
RECURSIVE LongDiv(_, _, _, _)
LongDiv(r, b, k, acc) ==
    IF k = 0 THEN acc
    ELSE CHOOSE q \in { LongDiv(s % b, b, k - 1, d * 10 + s \div b)
                        : s \in {r * 10}, d \in {acc} } : TRUE

DivMag(a, b) ==
    CHOOSE r \in { (x \div y) * Scale + LongDiv(x % y, y, 4, 0)
                   : x \in {a}, y \in {b} } : TRUE

fdiv(a, b) ==
    CHOOSE r \in
        { IF IsNaN(x) \/ IsNaN(y) THEN NaN
          ELSE IF IsInf(x) THEN (IF IsInf(y) THEN NaN
                                 ELSE IF (Sgn(x) > 0) = (y >= 0) THEN PosInf ELSE NegInf)
          ELSE IF IsInf(y) THEN 0
          ELSE IF y = 0 THEN (IF x = 0 THEN NaN ELSE IF x > 0 THEN PosInf ELSE NegInf)
          ELSE Sgn(x) * Sgn(y) * DivMag(Mag(x), Mag(y)) : x \in {a}, y \in {b} } : TRUE

\* Integer division truncating toward zero, as in C.
DivT(a, n) == CHOOSE r \in { Sgn(x) * (Mag(x) \div n) : x \in {a} } : TRUE

fabs(a) == CHOOSE r \in { IF IsNaN(x) THEN NaN ELSE Mag(x) : x \in {a} } : TRUE

\* Conversion of a C++ int to float.
FromInt(n) == n * Scale

SQR(x) == CHOOSE r \in { fmul(y, y) : y \in {x} } : TRUE

clamp(x, lo, hi) ==
    CHOOSE r \in { IF flt(y, lo) THEN lo ELSE IF fgt(y, hi) THEN hi ELSE y
                   : y \in {x} } : TRUE

\* floor(sqrt(n)) by bisection on lo..hi (lo*lo <= n < hi*hi).
RECURSIVE Bisect(_, _, _)
Bisect(n, lo, hi) ==
    IF hi - lo <= 1 THEN lo
    ELSE CHOOSE r \in { IF mid * mid <= n THEN Bisect(n, mid, hi) ELSE Bisect(n, lo, mid)
                        : mid \in {(lo + hi) \div 2} } : TRUE

ISqrt(n) == CHOOSE r \in { Bisect(m, 0, 46341) : m \in {n} } : TRUE

\* sqrt of <cmath>: NaN for a negative argument.
fsqrt(x) ==
    CHOOSE r \in
        { IF IsNaN(y) THEN NaN
          ELSE IF y = PosInf THEN PosInf
          ELSE IF y < 0 THEN NaN
          ELSE ISqrt(y * Scale) : y \in {x} } : TRUE

\* The clamped square root: 0 instead of NaN for a negative argument.
ssqrt(x) ==
    CHOOSE r \in
        { IF IsNaN(y) THEN NaN
          ELSE IF y = PosInf THEN PosInf
          ELSE IF y < 0 THEN 0
          ELSE ISqrt(y * Scale) : y \in {x} } : TRUE

(***************************************************************************)
(* <cmath> on fixed-point floats.  PI, TWO_PI and INV_TWOPI are the        *)
(* constants of math/utils.h rounded to the grid.                          *)
(***************************************************************************)
PI == 31416
TWO_PI == 62832
HALF_PI == PI \div 2
INV_TWOPI == 1592

RECURSIVE PowE(_)
PowE(n) == IF n = 0 THEN Scale ELSE MulMag(27183, PowE(n - 1))

\* sum of r^k / k! from term number k on, for 0 <= r < Scale.
RECURSIVE ExpSeries(_, _, _, _)
ExpSeries(r, k, term, acc) ==
    IF term = 0 \/ k > 16 THEN acc
    ELSE CHOOSE s \in { ExpSeries(r, k + 1, t, acc + t)
                        : t \in {(MulMag(term, r) + k \div 2) \div k} } : TRUE

ExpPos(x) == MulMag(PowE(x \div Scale), ExpSeries(x % Scale, 1, Scale, Scale))

\* exp: overflows to +inf where a float does (x > 88.72); results below
\* half a grid unit are 0.
fexp(x) ==
    CHOOSE r \in
        { IF IsNaN(y) THEN NaN
          ELSE IF y = PosInf THEN PosInf
          ELSE IF y = NegInf THEN 0
          ELSE IF y > 887200 THEN PosInf
          ELSE IF y >= 0 THEN ExpPos(y)
          ELSE IF -y > 12 * Scale THEN 0
          ELSE DivMag(Scale, ExpPos(-y)) : y \in {x} } : TRUE

\* 2 * (z + z^3/3 + z^5/5 + ...) = log((1+z)/(1-z)), |z| <= 1/3.
RECURSIVE AtanhSeries(_, _, _, _)
AtanhSeries(z2, k, pw, acc) ==
    IF pw = 0 \/ k > 21 THEN acc
    ELSE CHOOSE s \in { AtanhSeries(z2, k + 2, nx, sum)
                        : nx \in {Sgn(pw) * MulMag(Mag(pw), z2)},
                          sum \in {acc + DivT(pw, k)} } : TRUE

\* log of a mantissa brought into [Scale, 2*Scale) plus k * log 2.
RECURSIVE LogNorm(_, _)
LogNorm(m, k) ==
    IF m >= 2 * Scale THEN LogNorm(m \div 2, k + 1)
    ELSE IF m < Scale THEN LogNorm(m * 2, k - 1)
    ELSE CHOOSE r \in { k * 6931 + 2 * AtanhSeries(MulMag(Mag(z), Mag(z)), 1, z, 0)
                        : z \in {Sgn(m - Scale) * DivMag(Mag(m - Scale), m + Scale)} } : TRUE

flog(x) ==
    CHOOSE r \in
        { IF IsNaN(y) THEN NaN
          ELSE IF y = PosInf THEN PosInf
          ELSE IF y < 0 THEN NaN
          ELSE IF y = 0 THEN NegInf
          ELSE LogNorm(y, 0) : y \in {x} } : TRUE

fsinh(x) ==
    CHOOSE r \in { fdiv(fsub(fexp(y), fexp(fneg(y))), 2 * Scale) : y \in {x} } : TRUE

\* x - x^3/3! + x^5/5! - ... for |x| <= pi/2.
RECURSIVE SinSeries(_, _, _, _)
SinSeries(x2, k, term, acc) ==
    IF term = 0 \/ k > 15 THEN acc
    ELSE CHOOSE s \in
             { SinSeries(x2, k + 2, t, acc + t)
               : t \in {-DivT(Sgn(term) * MulMag(Mag(term), x2), (k + 1) * (k + 2))} } : TRUE

\* The angle brought into (-pi, pi].
WrapAngle(x) ==
    CHOOSE r \in { IF m > PI THEN m - TWO_PI ELSE m : m \in {x % TWO_PI} } : TRUE

SinWrapped(x) ==
    CHOOSE r \in
        { IF s > Scale THEN Scale ELSE IF s < -Scale THEN -Scale ELSE s
          : s \in { SinSeries(MulMag(Mag(y), Mag(y)), 1, y, y)
                    : y \in {IF x > HALF_PI THEN PI - x
                             ELSE IF x < -HALF_PI THEN -PI - x ELSE x} } } : TRUE

fsin(x) ==
    CHOOSE r \in { IF ~IsFinite(y) THEN NaN ELSE SinWrapped(WrapAngle(y))
                   : y \in {x} } : TRUE
fcos(x) ==
    CHOOSE r \in { IF ~IsFinite(y) THEN NaN ELSE SinWrapped(WrapAngle(y + HALF_PI))
                   : y \in {x} } : TRUE

\* t - t^3/3 + t^5/5 - ... for 0 <= t <= 0.42.
RECURSIVE AtanSeries(_, _, _, _)
AtanSeries(t2, k, pw, acc) ==
    IF pw = 0 \/ k > 25 THEN acc
    ELSE CHOOSE s \in { AtanSeries(t2, k + 2, nx, sum)
                        : nx \in {-(Sgn(pw) * MulMag(Mag(pw), t2))},
                          sum \in {acc + DivT(pw, k)} } : TRUE

\* atan t for 0 <= t <= 1, by atan t = 2 atan( t / (1 + sqrt(1 + t^2)) ).
AtanUnit(t) ==
    CHOOSE r \in
        { 2 * AtanSeries(MulMag(h, h), 1, h, 0)
          : h \in {DivMag(t, Scale + ISqrt((Scale + MulMag(t, t)) * Scale))} } : TRUE

\* atan(|y| / |x|) in 0..pi/2, not both zero.
AtanRatio(ay, ax) ==
    IF ay <= ax THEN AtanUnit(DivMag(ay, ax))
    ELSE HALF_PI - AtanUnit(DivMag(ax, ay))

fatan2(y, x) ==
    CHOOSE r \in
        { IF IsNaN(v) \/ IsNaN(u) THEN NaN
          ELSE IF v = 0 /\ u = 0 THEN 0
          ELSE LET a == IF IsInf(v) /\ IsInf(u) THEN HALF_PI \div 2
                        ELSE IF IsInf(v) THEN HALF_PI
                        ELSE IF IsInf(u) THEN 0
                        ELSE AtanRatio(Mag(v), Mag(u))
               IN  IF u >= 0 THEN (IF v >= 0 THEN a ELSE -a)
                   ELSE (IF v >= 0 THEN PI - a ELSE a - PI)
          : v \in {y}, u \in {x} } : TRUE

\* asin on [-1, 1] (the code clamps its argument first).
fasin(x) ==
    CHOOSE r \in
        { IF IsNaN(y) \/ Mag(y) > Scale THEN NaN
          ELSE fatan2(y, ISqrt((Scale - MulMag(Mag(y), Mag(y))) * Scale))
          : y \in {x} } : TRUE

(***************************************************************************)
(* Spectrum: three channel floats with channel-wise arithmetic.            *)
(***************************************************************************)
Channels == 1..3

SpecOf(x) == CHOOSE r \in { <<v, v, v>> : v \in {x} } : TRUE
SpecAdd(a, b) ==
    CHOOSE r \in { <<fadd(s[1], t[1]), fadd(s[2], t[2]), fadd(s[3], t[3])>>
                   : s \in {a}, t \in {b} } : TRUE
SpecMul(a, b) ==
    CHOOSE r \in { <<fmul(s[1], t[1]), fmul(s[2], t[2]), fmul(s[3], t[3])>>
                   : s \in {a}, t \in {b} } : TRUE
SpecDiv(a, b) ==
    CHOOSE r \in { <<fdiv(s[1], t[1]), fdiv(s[2], t[2]), fdiv(s[3], t[3])>>
                   : s \in {a}, t \in {b} } : TRUE
SpecScale(a, x) ==
    CHOOSE r \in { <<fmul(s[1], v), fmul(s[2], v), fmul(s[3], v)>>
                   : s \in {a}, v \in {x} } : TRUE
SpecExp(a) == CHOOSE r \in { <<fexp(s[1]), fexp(s[2]), fexp(s[3])>> : s \in {a} } : TRUE
\* float - Spectrum
SpecRSub(x, a) ==
    CHOOSE r \in { <<fsub(v, s[1]), fsub(v, s[2]), fsub(v, s[3])>>
                   : s \in {a}, v \in {x} } : TRUE

\* The scalar intensity reduction of a Spectrum: the luminance weights
\* 0.212671, 0.715160, 0.072169 of the colour type.
GetIntensity(a) ==
    CHOOSE r \in { fadd(fadd(fmul(2127, s[1]), fmul(7152, s[2])), fmul(721, s[3]))
                   : s \in {a} } : TRUE

(***************************************************************************)
(* Fresnel reflectance of a dielectric for unpolarised light.              *)
(***************************************************************************)
\* The mean of the two polarised reflectances for cosines ci and cosT.
FresnelRefracted(ci, cosT, etaI, etaT) ==
    CHOOSE r \in
        { fdiv(fadd(SQR(fdiv(fsub(fmul(etaT, ci), fmul(etaI, c)),
                             fadd(fmul(etaT, ci), fmul(etaI, c)))),
                    SQR(fdiv(fsub(fmul(etaI, ci), fmul(etaT, c)),
                             fadd(fmul(etaI, ci), fmul(etaT, c))))),
               2 * Scale)
          : c \in {cosT} } : TRUE

DielectricFresnel(cosI, etaI, etaT) ==
    CHOOSE r \in
        { CHOOSE q \in
              { IF fle(Scale, sinT2) THEN Scale
                ELSE FresnelRefracted(ci, fsqrt(fsub(Scale, sinT2)), etaI, etaT)
                : sinT2 \in {fmul(SQR(fdiv(etaI, etaT)), fsub(Scale, SQR(ci)))} } : TRUE
          : ci \in {clamp(fabs(cosI), 0, Scale)} } : TRUE

(***************************************************************************)
(* The static helpers of hair.cpp                                          *)
(***************************************************************************)
PMAX == 3

Lobes == 0..PMAX

\* Ap with lobe 1 computed as T^2 * (1 - f).
ApOfSquaredT(f, T) ==
    CHOOSE r \in
        { CHOOSE q \in
              { (0 :> SpecOf(x)) @@ (1 :> a1) @@ (2 :> a2)
                  @@ (PMAX :> SpecDiv(SpecMul(SpecScale(a2, x), t),
                                      SpecRSub(Scale, SpecScale(t, x))))
                : a2 \in {SpecScale(SpecMul(a1, t), x)} } : TRUE
          : x \in {f}, t \in {T}, a1 \in {SpecScale(SpecMul(T, T), fsub(Scale, f))} } : TRUE

\* Ap with the tail cut after its first term: the division by 1 - T*f is
\* left out.
ApOfFirstTailTerm(f, T) ==
    CHOOSE r \in
        { CHOOSE q \in
              { (0 :> SpecOf(x)) @@ (1 :> a1) @@ (2 :> a2)
                  @@ (PMAX :> SpecMul(SpecScale(a2, x), t))
                : a2 \in {SpecScale(SpecMul(a1, t), x)} } : TRUE
          : x \in {f}, t \in {T}, a1 \in {SpecScale(T, SQR(fsub(Scale, f)))} } : TRUE

\* for( i = 2 ; i < PMAX ; ++i ) ap[i] = ap[i-1] * T * f;
\* ap[PMAX] = ap[PMAX-1] * f * T / ( 1.0f - T * f );
RECURSIVE ApFill(_, _, _, _)
ApFill(ap, i, f, T) ==
    CHOOSE r \in
        { IF i < PMAX
          THEN ApFill(a @@ (i :> SpecScale(SpecMul(a[i - 1], T), f)), i + 1, f, T)
          ELSE a @@ (PMAX :> SpecDiv(SpecMul(SpecScale(a[PMAX - 1], f), T),
                                     SpecRSub(Scale, SpecScale(T, f))))
          : a \in {ap} } : TRUE

\* ap[0..PMAX] for Fresnel reflectance f and transmittance T.
ApOf(f, T) ==
    CHOOSE r \in
        { ApFill((0 :> SpecOf(x)) @@ (1 :> SpecScale(t, SQR(fsub(Scale, x)))), 2, x, t)
          : x \in {f}, t \in {T} } : TRUE

ApFresnel(cosThetaO, eta, sinGammaT) ==
    DielectricFresnel(fmul(cosThetaO, ssqrt(fsub(Scale, SQR(sinGammaT)))), Scale, eta)

Ap(cosThetaO, eta, sinGammaT, T) == ApOf(ApFresnel(cosThetaO, eta, sinGammaT), T)

\* The ten-term series sum x^(2i) / (4^i (i!)^2), i = 0..9.  Each term is
\* obtained from the one before (times x^2 / (4 i^2)) so that the powers of
\* x stay inside the fixed-point range; the truncation is the code's.
RECURSIVE I0Terms(_, _, _, _)
I0Terms(x2, i, term, val) ==
    IF i >= 10 THEN val
    ELSE CHOOSE r \in { I0Terms(x2, i + 1, t, s)
                        : t \in {fmul(term, fdiv(x2, FromInt(4 * i * i)))},
                          s \in {fadd(val, fmul(term, fdiv(x2, FromInt(4 * i * i))))} } : TRUE

I0(x) == CHOOSE r \in { I0Terms(x2, 1, Scale, Scale) : x2 \in {fmul(x, x)} } : TRUE

LogI0(x) ==
    CHOOSE r \in
        { IF fgt(y, 12 * Scale)
          THEN fadd(y, fmul(5000, fadd(fadd(fneg(flog(TWO_PI)), flog(fdiv(Scale, y))),
                                       fdiv(Scale, fmul(8 * Scale, y)))))
          ELSE flog(I0(y))
          : y \in {x} } : TRUE

Mp(cosThetaI, cosThetaO, sinThetaI, sinThetaO, v) ==
    CHOOSE r \in
        { IF fle(w, 1000)
          THEN fexp(fadd(fadd(fsub(fsub(LogI0(a), b), fdiv(Scale, w)), 6931),
                         flog(fdiv(Scale, fmul(2 * Scale, w)))))
          ELSE fdiv(fmul(fexp(fneg(b)), I0(a)),
                    fmul(fmul(fsinh(fdiv(Scale, w)), 2 * Scale), w))
          : a \in {fdiv(fmul(cosThetaI, cosThetaO), v)},
            b \in {fdiv(fmul(sinThetaI, sinThetaO), v)},
            w \in {v} } : TRUE

Phi(p, gammaO, gammaT) ==
    fadd(fsub(fmul(fmul(2 * Scale, FromInt(p)), gammaT), fmul(2 * Scale, gammaO)),
         fmul(FromInt(p), PI))

Logistic(x, scale) ==
    CHOOSE r \in { fdiv(e, fmul(scale, SQR(fadd(Scale, e))))
                   : e \in {fexp(fdiv(fneg(fabs(x)), scale))} } : TRUE

LogisticCDF(x, scale) == fdiv(Scale, fadd(Scale, fexp(fdiv(fneg(x), scale))))

TrimmedLogistic(x, scale, a, b) ==
    fdiv(Logistic(x, scale), fsub(LogisticCDF(b, scale), LogisticCDF(a, scale)))

SampleTrimmedLogistic(r, scale, a, b) ==
    CHOOSE q \in
        { clamp(fmul(fneg(scale),
                     flog(fsub(fdiv(Scale, fadd(fmul(r, k), LogisticCDF(a, scale))), Scale))),
                a, b)
          : k \in {fsub(LogisticCDF(b, scale), LogisticCDF(a, scale))} } : TRUE

\* while( dphi > PI ) dphi -= TWO_PI;   (a comparison with NaN ends the loop;
\* an infinite dphi is a fixed point of the subtraction and never leaves it:
\* the model returns it unchanged.)
RECURSIVE WrapDown(_)
WrapDown(dphi) ==
    CHOOSE r \in { IF fgt(d, PI) /\ IsFinite(d) THEN WrapDown(fsub(d, TWO_PI)) ELSE d
                   : d \in {dphi} } : TRUE

\* The second loop left out: dphi goes on as the first loop left it.
WrapUpSkipped(dphi) == dphi

\* while( dphi < -PI ) dphi += TWO_PI;
RECURSIVE WrapUp(_)
WrapUp(dphi) ==
    CHOOSE r \in { IF flt(d, -PI) /\ IsFinite(d) THEN WrapUp(fadd(d, TWO_PI)) ELSE d
                   : d \in {dphi} } : TRUE

\* The cap on the passes of one wrap loop that are followed.
MaxWrapSteps == 8

\* The number of passes of "while( dphi > PI ) dphi -= TWO_PI" after n
\* passes; MaxWrapSteps when the loop is still running then.
RECURSIVE WrapDownSteps(_, _)
WrapDownSteps(dphi, n) ==
    CHOOSE r \in { IF n >= MaxWrapSteps THEN n
                   ELSE IF fgt(d, PI) THEN WrapDownSteps(fsub(d, TWO_PI), n + 1)
                   ELSE n
                   : d \in {dphi} } : TRUE

\* The same for "while( dphi < -PI ) dphi += TWO_PI".
RECURSIVE WrapUpSteps(_, _)
WrapUpSteps(dphi, n) ==
    CHOOSE r \in { IF n >= MaxWrapSteps THEN n
                   ELSE IF flt(d, -PI) THEN WrapUpSteps(fadd(d, TWO_PI), n + 1)
                   ELSE n
                   : d \in {dphi} } : TRUE

\* <<passes of the first loop, passes of the second loop>> in Np.
NpWrapSteps(phi, p, gammaO, gammaT) ==
    CHOOSE r \in { <<WrapDownSteps(d, 0), WrapUpSteps(WrapDown(d), 0)>>
                   : d \in {fsub(phi, Phi(p, gammaO, gammaT))} } : TRUE

NpWrap(phi, p, gammaO, gammaT) == WrapUp(WrapDown(fsub(phi, Phi(p, gammaO, gammaT))))

Np(phi, p, scale, gammaO, gammaT) ==
    TrimmedLogistic(NpWrap(phi, p, gammaO, gammaT), scale, -PI, PI)

\* sumY after the loop "for( i = 0 ; i <= PMAX ; ++i ) sumY += ap[i].GetIntensity()"
\* has run up to lobe i.
RECURSIVE SumIntensity(_, _)
SumIntensity(ap, i) ==
    IF i = 0 THEN fadd(0, GetIntensity(ap[0]))
    ELSE fadd(SumIntensity(ap, i - 1), GetIntensity(ap[i]))

\* ComputeApPdf with its intermediate values: [ap, sumY, pdf].
ApPdfTerms(cosGammaO, cosThetaO, sinThetaO, eta, sigma) ==
    CHOOSE r \in
        { CHOOSE q \in
              { CHOOSE s \in
                    { [ ap |-> ap, sumY |-> sumY,
                        pdf |-> [i \in Lobes |-> fdiv(GetIntensity(ap[i]), sumY)] ]
                      : sumY \in {SumIntensity(ap, PMAX)} } : TRUE
                : ap \in {Ap(cosThetaO, eta, sinGammaT,
                             SpecExp(SpecScale(sigma,
                                               fdiv(fmul(-2 * Scale,
                                                         ssqrt(fsub(Scale, SQR(sinGammaT)))),
                                                    ssqrt(fsub(Scale,
                                                               SQR(fdiv(sinThetaO, eta))))))))}
              } : TRUE
          : sinGammaT \in {fdiv(ssqrt(fsub(Scale, SQR(cosGammaO))),
                                fdiv(fsqrt(fsub(SQR(eta), SQR(sinThetaO))), cosThetaO))} } : TRUE

ComputeApPdf(cosGammaO, cosThetaO, sinThetaO, eta, sigma) ==
    ApPdfTerms(cosGammaO, cosThetaO, sinThetaO, eta, sigma).pdf

(***************************************************************************)
(* Hair::Hair                                                              *)
(***************************************************************************)
RECURSIVE Pow(_, _)
Pow(x, n) == IF n = 0 THEN Scale ELSE fmul(x, Pow(x, n - 1))

\* m_v[0..PMAX]
HairVariance(lRoughness) ==
    LET v0 == SQR(fadd(fadd(fmul(7260, lRoughness), fmul(8120, SQR(lRoughness))),
                       fmul(37000, Pow(lRoughness, 20))))
    IN  [p \in Lobes |-> IF p = 0 THEN v0
                         ELSE IF p = 1 THEN fmul(2500, v0)
                         ELSE fmul(4 * Scale, v0)]

\* alpha = 2.0f / 180.0f
TiltAlpha == fdiv(2 * Scale, 180 * Scale)

\* m_sin2kAlpha[0..PMAX-1], m_cos2kAlpha[0..PMAX-1] as [sin, cos] records.
HairTilt ==
    LET t[i \in 0..(PMAX - 1)] ==
            IF i = 0
            THEN LET s0 == fsin(TiltAlpha)
                 IN  [sin |-> s0, cos |-> ssqrt(fsub(Scale, SQR(s0)))]
            ELSE [sin |-> fmul(fmul(2 * Scale, t[i - 1].cos), t[i - 1].sin),
                  cos |-> fsub(SQR(t[i - 1].cos), SQR(t[i - 1].sin))]
    IN  t

HairScale(aRoughness) ==
    fmul(6267, fadd(fadd(fmul(2650, aRoughness), fmul(11940, SQR(aRoughness))),
                    fmul(53720, Pow(aRoughness, 22))))

\* The object the constructor leaves behind.  The constructor has no
\* failure path: it returns normally for every argument.
HairNew(absorption, lRoughness, aRoughness, ior) ==
    [ m_sigma |-> absorption,
      m_lRoughness |-> lRoughness,
      m_aRoughness |-> aRoughness,
      m_eta |-> ior,
      m_v |-> HairVariance(lRoughness),
      m_sin2kAlpha |-> [i \in 0..(PMAX - 1) |-> HairTilt[i].sin],
      m_cos2kAlpha |-> [i \in 0..(PMAX - 1) |-> HairTilt[i].cos],
      m_scale |-> HairScale(aRoughness),
      m_etaSqr |-> SQR(ior) ]

(***************************************************************************)
(* The cuticle-tilt correction, as written out at each of its four sites.  *)
(* Each returns <<sinThetaIp, cosThetaIp>> (before the abs of the cosine). *)
(***************************************************************************)
TiltF(h, p, sinThetaI, cosThetaI) ==
    IF p = 0
    THEN <<fadd(fmul(sinThetaI, h.m_cos2kAlpha[1]), fmul(cosThetaI, h.m_sin2kAlpha[1])),
           fsub(fmul(cosThetaI, h.m_cos2kAlpha[1]), fmul(sinThetaI, h.m_sin2kAlpha[1]))>>
    ELSE IF p = 1
    THEN <<fsub(fmul(sinThetaI, h.m_cos2kAlpha[0]), fmul(cosThetaI, h.m_sin2kAlpha[0])),
           fadd(fmul(cosThetaI, h.m_cos2kAlpha[0]), fmul(sinThetaI, h.m_sin2kAlpha[0]))>>
    ELSE IF p = 2
    THEN <<fsub(fmul(sinThetaI, h.m_cos2kAlpha[2]), fmul(cosThetaI, h.m_sin2kAlpha[2])),
           fadd(fmul(cosThetaI, h.m_cos2kAlpha[2]), fmul(sinThetaI, h.m_sin2kAlpha[2]))>>
    ELSE <<sinThetaI, cosThetaI>>

\* The correction with the tilt table read in lobe order: lobe p reads
\* entry p, so lobes 0 and 1 exchange their entries.
TiltSampleInOrder(h, p, sinThetaI, cosThetaI) ==
    IF p = 0
    THEN <<fadd(fmul(sinThetaI, h.m_cos2kAlpha[0]), fmul(cosThetaI, h.m_sin2kAlpha[0])),
           fsub(fmul(cosThetaI, h.m_cos2kAlpha[0]), fmul(sinThetaI, h.m_sin2kAlpha[0]))>>
    ELSE IF p = 1
    THEN <<fsub(fmul(sinThetaI, h.m_cos2kAlpha[1]), fmul(cosThetaI, h.m_sin2kAlpha[1])),
           fadd(fmul(cosThetaI, h.m_cos2kAlpha[1]), fmul(sinThetaI, h.m_sin2kAlpha[1]))>>
    ELSE IF p = 2
    THEN <<fsub(fmul(sinThetaI, h.m_cos2kAlpha[2]), fmul(cosThetaI, h.m_sin2kAlpha[2])),
           fadd(fmul(cosThetaI, h.m_cos2kAlpha[2]), fmul(sinThetaI, h.m_sin2kAlpha[2]))>>
    ELSE <<sinThetaI, cosThetaI>>

TiltSample(h, p, sinThetaI, cosThetaI) ==
    IF p = 0
    THEN <<fadd(fmul(sinThetaI, h.m_cos2kAlpha[1]), fmul(cosThetaI, h.m_sin2kAlpha[1])),
           fsub(fmul(cosThetaI, h.m_cos2kAlpha[1]), fmul(sinThetaI, h.m_sin2kAlpha[1]))>>
    ELSE IF p = 1
    THEN <<fsub(fmul(sinThetaI, h.m_cos2kAlpha[0]), fmul(cosThetaI, h.m_sin2kAlpha[0])),
           fadd(fmul(cosThetaI, h.m_cos2kAlpha[0]), fmul(sinThetaI, h.m_sin2kAlpha[0]))>>
    ELSE IF p = 2
    THEN <<fsub(fmul(sinThetaI, h.m_cos2kAlpha[2]), fmul(cosThetaI, h.m_sin2kAlpha[2])),
           fadd(fmul(cosThetaI, h.m_cos2kAlpha[2]), fmul(sinThetaI, h.m_sin2kAlpha[2]))>>
    ELSE <<sinThetaI, cosThetaI>>

\* The entries of the tilt table that the correction for lobe p reads, at
\* each of the four sites.
TiltReads(p) == IF p = 0 THEN {1} ELSE IF p = 1 THEN {0} ELSE IF p = 2 THEN {2} ELSE {}

TiltSamplePdf(h, p, sinThetaI, cosThetaI) ==
    IF p = 0
    THEN <<fadd(fmul(sinThetaI, h.m_cos2kAlpha[1]), fmul(cosThetaI, h.m_sin2kAlpha[1])),
           fsub(fmul(cosThetaI, h.m_cos2kAlpha[1]), fmul(sinThetaI, h.m_sin2kAlpha[1]))>>
    ELSE IF p = 1
    THEN <<fsub(fmul(sinThetaI, h.m_cos2kAlpha[0]), fmul(cosThetaI, h.m_sin2kAlpha[0])),
           fadd(fmul(cosThetaI, h.m_cos2kAlpha[0]), fmul(sinThetaI, h.m_sin2kAlpha[0]))>>
    ELSE IF p = 2
    THEN <<fsub(fmul(sinThetaI, h.m_cos2kAlpha[2]), fmul(cosThetaI, h.m_sin2kAlpha[2])),
           fadd(fmul(cosThetaI, h.m_cos2kAlpha[2]), fmul(sinThetaI, h.m_sin2kAlpha[2]))>>
    ELSE <<sinThetaI, cosThetaI>>

TiltPdf(h, p, sinThetaI, cosThetaI) ==
    IF p = 0
    THEN <<fadd(fmul(sinThetaI, h.m_cos2kAlpha[1]), fmul(cosThetaI, h.m_sin2kAlpha[1])),
           fsub(fmul(cosThetaI, h.m_cos2kAlpha[1]), fmul(sinThetaI, h.m_sin2kAlpha[1]))>>
    ELSE IF p = 1
    THEN <<fsub(fmul(sinThetaI, h.m_cos2kAlpha[0]), fmul(cosThetaI, h.m_sin2kAlpha[0])),
           fadd(fmul(cosThetaI, h.m_cos2kAlpha[0]), fmul(sinThetaI, h.m_sin2kAlpha[0]))>>
    ELSE IF p = 2
    THEN <<fsub(fmul(sinThetaI, h.m_cos2kAlpha[2]), fmul(cosThetaI, h.m_sin2kAlpha[2])),
           fadd(fmul(cosThetaI, h.m_cos2kAlpha[2]), fmul(sinThetaI, h.m_sin2kAlpha[2]))>>
    ELSE <<sinThetaI, cosThetaI>>

(***************************************************************************)
(* Hair::f.  A direction is a tuple <<x, y, z>>.                           *)
(***************************************************************************)
\* The angles derived from sinGammaO and the modified index of refraction.
HairGammaOf(sinGammaO, etap) ==
    CHOOSE r \in
        { [ gammaO |-> fasin(clamp(s, -Scale, Scale)),
            sinGammaT |-> t,
            cosGammaT |-> ssqrt(fsub(Scale, SQR(t))),
            gammaT |-> fasin(clamp(t, -Scale, Scale)) ]
          : s \in {sinGammaO}, t \in {fdiv(sinGammaO, etap)} } : TRUE

\* etap = sqrt( m_etaSqr - SQR( sinThetaO ) ) / cosThetaO and the angles
\* gammaO, gammaT derived from wo.
HairGamma(h, wo) ==
    HairGammaOf(ssqrt(fsub(Scale, SQR(wo[2]))),
                fdiv(fsqrt(fsub(h.m_etaSqr, SQR(wo[1]))), ssqrt(fsub(Scale, SQR(wo[1])))))

\* The longitudinal sines and cosines of wo and wi.
HairAngles(wo, sinThetaI) ==
    [ sinThetaO |-> wo[1],
      cosThetaO |-> ssqrt(fsub(Scale, SQR(wo[1]))),
      sinThetaI |-> sinThetaI,
      cosThetaI |-> ssqrt(fsub(Scale, SQR(sinThetaI))) ]

\* One pass of the loop of Hair::f for lobe p.
FTerm(h, c, g, phi, ap, p) ==
    CHOOSE r \in
        { SpecScale(SpecScale(ap[p], Mp(fabs(t[2]), c.cosThetaO, t[1], c.sinThetaO, h.m_v[p])),
                    Np(phi, p, h.m_scale, g.gammaO, g.gammaT))
          : t \in {TiltF(h, p, c.sinThetaI, c.cosThetaI)} } : TRUE

\* fsum after the passes for lobes 0..p.
RECURSIVE FLobes(_, _, _, _, _, _)
FLobes(h, c, g, phi, ap, p) ==
    IF p < 0 THEN SpecOf(0)
    ELSE SpecAdd(FLobes(h, c, g, phi, ap, p - 1), FTerm(h, c, g, phi, ap, p))

Hair_f(h, wo, wi) ==
    CHOOSE r \in
        { CHOOSE q \in
              { SpecAdd(FLobes(h, c, g, phi, ap, PMAX - 1),
                        SpecScale(SpecScale(ap[PMAX],
                                            Mp(c.cosThetaI, c.cosThetaO, c.sinThetaI,
                                               c.sinThetaO, h.m_v[PMAX])),
                                  INV_TWOPI))
                : ap \in {Ap(c.cosThetaO, h.m_eta, g.sinGammaT,
                             SpecExp(SpecScale(h.m_sigma,
                                               fdiv(fmul(-2 * Scale, g.cosGammaT),
                                                    ssqrt(fsub(Scale,
                                                               SQR(fdiv(wo[1], h.m_eta))))))))}
              } : TRUE
          : c \in {HairAngles(wo, wi[1])},
            g \in {HairGamma(h, wo)},
            phi \in {fsub(fatan2(wi[2], wi[3]), fatan2(wo[2], wo[3]))} } : TRUE

(***************************************************************************)
(* Hair::pdf                                                               *)
(***************************************************************************)
\* One pass of the loop of Hair::pdf for lobe p.
PdfTerm(h, c, g, phi, apPdf, p) ==
    CHOOSE r \in
        { fmul(fmul(Mp(fabs(t[2]), c.cosThetaO, t[1], c.sinThetaO, h.m_v[p]), apPdf[p]),
               Np(phi, p, h.m_scale, g.gammaO, g.gammaT))
          : t \in {TiltPdf(h, p, c.sinThetaI, c.cosThetaI)} } : TRUE

\* pdf after the passes for lobes 0..p.
RECURSIVE PdfLobes(_, _, _, _, _, _)
PdfLobes(h, c, g, phi, apPdf, p) ==
    IF p < 0 THEN 0
    ELSE fadd(PdfLobes(h, c, g, phi, apPdf, p - 1), PdfTerm(h, c, g, phi, apPdf, p))

Hair_pdf(h, wo, wi) ==
    CHOOSE r \in
        { CHOOSE q \in
              { fadd(PdfLobes(h, c, g, phi, apPdf, PMAX - 1),
                     fmul(fmul(Mp(c.cosThetaI, c.cosThetaO, c.sinThetaI, c.sinThetaO,
                                  h.m_v[PMAX]),
                               apPdf[PMAX]),
                          INV_TWOPI))
                : apPdf \in {ComputeApPdf(wo[2], c.cosThetaO, c.sinThetaO, h.m_eta,
                                          h.m_sigma)} } : TRUE
          : c \in {HairAngles(wo, wi[1])},
            g \in {HairGamma(h, wo)},
            phi \in {fsub(fatan2(wi[2], wi[3]), fatan2(wo[2], wo[3]))} } : TRUE

(***************************************************************************)
(* Hair::sample_f.  u = <<u1, u2, u3, u4>> are the four values that the    *)
(* call takes from sort_canonical(), in the order it takes them.           *)
(***************************************************************************)
\* for( ; p < PMAX ; ++p ){ if( r < apPdf[p] ) break; r -= apPdf[p]; }
RECURSIVE LobeScan(_, _, _)
LobeScan(apPdf, p, r) ==
    IF p < PMAX
    THEN IF flt(r, apPdf[p]) THEN p ELSE LobeScan(apPdf, p + 1, fsub(r, apPdf[p]))
    ELSE p

\* The scan without "r -= apPdf[p]": every lobe is tested against the
\* draw itself.
RECURSIVE LobeScanNoCarry(_, _, _)
LobeScanNoCarry(apPdf, p, r) ==
    IF p < PMAX
    THEN IF flt(r, apPdf[p]) THEN p ELSE LobeScanNoCarry(apPdf, p + 1, r)
    ELSE p

SelectLobeNoCarry(apPdf, r) ==
    CHOOSE q \in { LobeScanNoCarry(a, 0, r) : a \in {apPdf} } : TRUE

SelectLobe(apPdf, r) == CHOOSE q \in { LobeScan(a, 0, r) : a \in {apPdf} } : TRUE

\* cosTheta = 1 + m_v[p] * log( r + (1 - r) * exp( -2 / m_v[p] ) )
SampleCosTheta(v, r) ==
    fadd(Scale, fmul(v, flog(fadd(r, fmul(fsub(Scale, r), fexp(fdiv(-2 * Scale, v)))))))

\* sinThetaI = -cosTheta * sinThetaO + sinTheta * cosPhi * cosThetaO
SampleSinThetaI(cosTheta, sinThetaO, cosThetaO, cosPhi) ==
    CHOOSE r \in
        { fadd(fmul(fneg(ct), sinThetaO),
               fmul(fmul(ssqrt(fsub(Scale, SQR(ct))), cosPhi), cosThetaO))
          : ct \in {cosTheta} } : TRUE

\* The sampled sinThetaI with its cosThetaI = ssqrt( 1 - sinThetaI^2 ), after
\* the lobe's tilt: <<sinThetaI, cosThetaI>>.
SampleTilted(h, wo, p, u) ==
    CHOOSE r \in
        { TiltSample(h, p, s, ssqrt(fsub(Scale, SQR(s))))
          : s \in {SampleSinThetaI(SampleCosTheta(h.m_v[p], u[2]), wo[1],
                                   ssqrt(fsub(Scale, SQR(wo[1]))),
                                   fcos(fmul(TWO_PI, u[3])))} } : TRUE

\* dphi: the lobe's azimuthal offset plus a trimmed-logistic sample, or a
\* uniform angle for the merged tail.
SampleDphi(h, g, p, r) ==
    IF p < PMAX
    THEN fadd(Phi(p, g.gammaO, g.gammaT), SampleTrimmedLogistic(r, h.m_scale, -PI, PI))
    ELSE fmul(TWO_PI, r)

\* The sampling stage: the partition apPdf and the angles g it computed,
\* the lobe p, the tilt-corrected sinThetaI and cosThetaI the code keeps,
\* dphi and the direction wi.
SampleDirection(h, wo, u) ==
    CHOOSE r \in
        { CHOOSE q \in
              { CHOOSE s \in
                    { CHOOSE z \in
                          { [ apPdf |-> apPdf, g |-> g, p |-> p,
                              sinThetaI |-> t[1], cosThetaI |-> t[2], dphi |-> dphi,
                              wi |-> <<t[1], fmul(t[2], fsin(phiI)),
                                       fmul(t[2], fcos(phiI))>> ]
                            : phiI \in {fadd(fatan2(wo[2], wo[3]), dphi)} } : TRUE
                      : t \in {SampleTilted(h, wo, p, u)},
                        dphi \in {SampleDphi(h, g, p, u[4])} } : TRUE
                : p \in {SelectLobe(apPdf, u[1])} } : TRUE
          : apPdf \in {ComputeApPdf(wo[2], ssqrt(fsub(Scale, SQR(wo[1]))), wo[1],
                                    h.m_eta, h.m_sigma)},
            g \in {HairGamma(h, wo)} } : TRUE

\* One pass of the density loop of Hair::sample_f for lobe p: d carries the
\* tilt-corrected sinThetaI, cosThetaI that the sampling stage kept.
SamplePdfTerm(h, wo, d, p) ==
    CHOOSE r \in
        { fmul(fmul(Mp(fabs(t[2]), ssqrt(fsub(Scale, SQR(wo[1]))), t[1], wo[1], h.m_v[p]),
                    d.apPdf[p]),
               Np(d.dphi, p, h.m_scale, d.g.gammaO, d.g.gammaT))
          : t \in {TiltSamplePdf(h, p, d.sinThetaI, d.cosThetaI)} } : TRUE

\* *pPdf after the passes for lobes 0..p.
RECURSIVE SamplePdfLobes(_, _, _, _)
SamplePdfLobes(h, wo, d, p) ==
    IF p < 0 THEN 0
    ELSE fadd(SamplePdfLobes(h, wo, d, p - 1), SamplePdfTerm(h, wo, d, p))

\* The density written to *pPdf.
SamplePdf(h, wo, d) ==
    fadd(SamplePdfLobes(h, wo, d, PMAX - 1),
         fmul(fmul(Mp(d.cosThetaI, ssqrt(fsub(Scale, SQR(wo[1]))), d.sinThetaI, wo[1],
                      h.m_v[PMAX]),
                   d.apPdf[PMAX]),
              INV_TWOPI))

\* sample_f with hidden state: the azimuthal draw is shifted by the position
\* of the random source instead of being the fourth value handed out.
Hair_sample_f_Hidden(h, wo, u, wantPdf) ==
    CHOOSE r \in
        { [ wi |-> d.wi,
            p |-> d.p,
            cosThetaI |-> d.cosThetaI,
            pdf |-> IF wantPdf THEN <<SamplePdf(h, wo, d)>> ELSE <<>>,
            energy |-> Hair_f(h, wo, d.wi) ]
          : d \in {SampleDirection(h, wo,
                                   <<u[1], u[2], u[3], (u[4] + 250 * rngCount) % Scale>>)}
        } : TRUE

\* pdf is <<density>>, or <<>> when no density is requested (pPdf == nullptr).
Hair_sample_f(h, wo, u, wantPdf) ==
    CHOOSE r \in
        { [ wi |-> d.wi,
            p |-> d.p,
            cosThetaI |-> d.cosThetaI,
            pdf |-> IF wantPdf THEN <<SamplePdf(h, wo, d)>> ELSE <<>>,
            energy |-> Hair_f(h, wo, d.wi) ]
          : d \in {SampleDirection(h, wo, u)} } : TRUE

(***************************************************************************)
(* The state machine                                                       *)
(***************************************************************************)
\* The cap on the number of values taken from sort_canonical in one run.
MaxDraws == 8

\* Constructor arguments <<absorption, lRoughness, aRoughness, ior>>: two
\* valid parameter sets (no absorption, coloured absorption) and the two
\* precondition violations, a longitudinal and an azimuthal roughness of 0.
HairArgs ==
    { << <<0, 0, 0>>, 3000, 5000, 15500 >>,
      << <<2000, 5000, 10000>>, 3000, 5000, 15500 >>,
      << <<2000, 5000, 10000>>, 0, 5000, 15500 >>,
      << <<2000, 5000, 10000>>, 3000, 0, 15500 >> }

\* Unit-length directions of the local frame, exact on the grid; the
\* longitudinal component is +1 or -1 at grazing incidence.
Directions ==
    { <<0, 0, 10000>>, <<0, 10000, 0>>, <<10000, 0, 0>>, <<-10000, 0, 0>>,
      <<6000, 8000, 0>>, <<-6000, 0, 8000>>, <<9600, 0, 2800>>, <<0, 6000, 8000>> }

\* Values of sort_canonical(), in [0, 1): the lobe draw, the longitudinal
\* draw, the draw of cosPhi and the azimuthal draw.
LobeDraws == { 0, 5000, 9000, 9999 }
ThetaDraws == { 5000, 9990 }
PhiDraws == { 0, 2500 }
AzimuthDraws == { 1250, 8750 }
DrawTuples == LobeDraws \X ThetaDraws \X PhiDraws \X AzimuthDraws

\* What every operation derives from wo alone, kept with the call's record:
\* the Fresnel reflectance f and the transmittance T that Ap works on, Ap's
\* result ap, the intensity sum sumY and the lobe partition apPdf.
LobeTerms(h, wo) ==
    CHOOSE r \in
        { [ f |-> ApFresnel(ssqrt(fsub(Scale, SQR(wo[1]))), h.m_eta, g.sinGammaT),
            T |-> SpecExp(SpecScale(h.m_sigma,
                                    fdiv(fmul(-2 * Scale, g.cosGammaT),
                                         ssqrt(fsub(Scale, SQR(fdiv(wo[1], h.m_eta))))))),
            ap |-> t.ap,
            sumY |-> t.sumY,
            apPdf |-> t.pdf ]
          : g \in {HairGamma(h, wo)},
            t \in {ApPdfTerms(wo[2], ssqrt(fsub(Scale, SQR(wo[1]))), wo[1], h.m_eta,
                              h.m_sigma)} } : TRUE

Init ==
    /\ hair = <<>>
    /\ raised = FALSE
    /\ rngCount = 0
    /\ last = <<>>

\* Hair::Hair
Construct(absorption, lRoughness, aRoughness, ior) ==
    /\ hair = <<>>
    /\ hair' = <<HairNew(absorption, lRoughness, aRoughness, ior)>>
    /\ UNCHANGED <<raised, rngCount, last>>

\* Hair::f
CallF(wo, wi) ==
    /\ hair # <<>>
    /\ last = <<>>
    /\ last' = << [ op |-> "f", wo |-> wo, wi |-> wi, u |-> <<>>, p |-> 0,
                    cosThetaI |-> 0, pdf |-> <<>>,
                    energy |-> Hair_f(hair[1], wo, wi),
                    lobe |-> LobeTerms(hair[1], wo) ] >>
    /\ UNCHANGED <<hair, raised, rngCount>>

\* Hair::pdf
CallPdf(wo, wi) ==
    /\ hair # <<>>
    /\ last = <<>>
    /\ last' = << [ op |-> "pdf", wo |-> wo, wi |-> wi, u |-> <<>>, p |-> 0,
                    cosThetaI |-> 0, pdf |-> <<Hair_pdf(hair[1], wo, wi)>>,
                    energy |-> SpecOf(0),
                    lobe |-> LobeTerms(hair[1], wo) ] >>
    /\ UNCHANGED <<hair, raised, rngCount>>

SampleRecord(wo, u, r) ==
    CHOOSE q \in
        { [ op |-> "sample_f", wo |-> wo, wi |-> s.wi, u |-> u, p |-> s.p,
            cosThetaI |-> s.cosThetaI, pdf |-> s.pdf, energy |-> s.energy,
            lobe |-> LobeTerms(hair[1], wo) ]
          : s \in {r} } : TRUE

\* Hair::sample_f: the call takes four values from sort_canonical.
CallSampleF(wo, u, wantPdf) ==
    /\ hair # <<>>
    /\ last = <<>>
    /\ rngCount + 4 <= MaxDraws
    /\ rngCount' = rngCount + 4
    /\ last' = <<SampleRecord(wo, u, Hair_sample_f(hair[1], wo, u, wantPdf))>>
    /\ UNCHANGED <<hair, raised>>

\* The caller takes the result; the next call may start.
Return ==
    /\ last # <<>>
    /\ last' = <<>>
    /\ UNCHANGED <<hair, raised, rngCount>>

Next ==
    \/ \E a \in HairArgs : Construct(a[1], a[2], a[3], a[4])
    \/ \E wo \in Directions, wi \in Directions : CallF(wo, wi)
    \/ \E wo \in Directions, wi \in Directions : CallPdf(wo, wi)
    \/ \E wo \in Directions, u \in DrawTuples, w \in BOOLEAN : CallSampleF(wo, u, w)
    \/ Return

Spec == Init /\ [][Next]_vars

(***************************************************************************)
(* Vocabulary of the properties                                            *)
(***************************************************************************)
Constructed == hair # <<>>

\* The valid parameter sets: refractive index > 1, non-negative absorption,
\* positive roughness.
ValidHair ==
    /\ Constructed
    /\ hair[1].m_eta > Scale
    /\ \A c \in Channels : hair[1].m_sigma[c] >= 0
    /\ hair[1].m_lRoughness > 0
    /\ hair[1].m_aRoughness > 0

Returned(op) == last # <<>> /\ last[1].op = op

Grazing(w) == w[1] = Scale \/ w[1] = -Scale

FiniteNonNeg(x) == IsFinite(x) /\ x >= 0

\* Equal up to the rounding of the grid: 2 percent of the larger value
\* plus five grid units.
Close(a, b) ==
    /\ IsFinite(a)
    /\ IsFinite(b)
    /\ 50 * Mag(a - b) <= (IF Mag(a) > Mag(b) THEN Mag(a) ELSE Mag(b)) + 250

\* Equal up to n grid units.
Within(a, b, n) == IsFinite(a) /\ IsFinite(b) /\ Mag(a - b) <= n

NonZero(sp) == \E c \in Channels : sp[c] # 0

(***************************************************************************)
(* C1.  For every wo and every valid parameter set the lobe partition that *)
(* ComputeApPdf hands to sample_f and pdf sums to 1: the sum of the lobe   *)
(* intensities is a non-zero number and the entries, each the intensity of *)
(* its lobe divided by that sum, add up to 1 (to within one grid unit per  *)
(* entry).                                                                 *)
(***************************************************************************)
C1_PartitionSumsToOne ==
    (ValidHair /\ (Returned("sample_f") \/ Returned("pdf"))) =>
        LET t == last[1].lobe
            total == fadd(fadd(fadd(t.apPdf[0], t.apPdf[1]), t.apPdf[2]), t.apPdf[3])
        IN  /\ IsFinite(t.sumY)
            /\ t.sumY # 0
            /\ \A i \in Lobes : t.apPdf[i] = fdiv(GetIntensity(t.ap[i]), t.sumY)
            /\ Within(total, Scale, PMAX + 1)

(***************************************************************************)
(* C2.  The density sample_f writes to *pPdf equals pdf(wo, wi) evaluated  *)
(* on the direction the same call returned, whatever lobe was selected and *)
(* whatever the sign of the tilt-corrected longitudinal cosine.  (Two NaN  *)
(* densities are counted as agreeing.)                                     *)
(***************************************************************************)
C2_SampleMatchesPdf ==
    (ValidHair /\ Returned("sample_f") /\ last[1].pdf # <<>>) =>
        LET q == Hair_pdf(hair[1], last[1].wo, last[1].wi)
        IN  \/ IsNaN(last[1].pdf[1]) /\ IsNaN(q)
            \/ Close(last[1].pdf[1], q)

(***************************************************************************)
(* C3.  Reciprocity: f(o, i) equals f(i, o) for unit directions o, i.      *)
(* (Two NaN energies are counted as agreeing.)                             *)
(***************************************************************************)
C3_Reciprocity ==
    (ValidHair /\ Returned("f")) =>
        LET back == Hair_f(hair[1], last[1].wi, last[1].wo)
        IN  \A c \in Channels :
                \/ IsNaN(last[1].energy[c]) /\ IsNaN(back[c])
                \/ Close(last[1].energy[c], back[c])

C5_PositiveDensity ==
    /\ (ValidHair /\ Returned("f") /\ NonZero(last[1].energy)) =>
           fgt(Hair_pdf(hair[1], last[1].wo, last[1].wi), 0)
    /\ (ValidHair /\ Returned("sample_f") /\ last[1].pdf # <<>>
            /\ NonZero(last[1].energy)) =>
           fgt(last[1].pdf[1], 0)

(***************************************************************************)
(* C6.  Totality at grazing incidence: when the longitudinal component of  *)
(* wo or wi is exactly +1 or -1, f, pdf and sample_f return finite,        *)
(* non-negative results.                                                   *)
(***************************************************************************)
C6_TotalAtGrazing ==
    (ValidHair /\ last # <<>> /\ (Grazing(last[1].wo) \/ Grazing(last[1].wi))) =>
        /\ \A c \in Channels : FiniteNonNeg(last[1].energy[c])
        /\ \A k \in DOMAIN last[1].pdf : FiniteNonNeg(last[1].pdf[k])
        /\ \A k \in 1..3 : IsFinite(last[1].wi[k])

(***************************************************************************)
(* C7.  A Hair constructed with non-positive longitudinal or azimuthal     *)
(* roughness is reported as an error at construction: no such object       *)
(* exists without an error having been raised.                             *)
(***************************************************************************)
C7_FailsLoudly ==
    (Constructed /\ (hair[1].m_lRoughness <= 0 \/ hair[1].m_aRoughness <= 0)) => raised

(***************************************************************************)
(* C8.  Lobe selection is the inverse CDF of the partition with strict     *)
(* less-than: the selected lobe is the smallest index in 0..PMAX-1 whose   *)
(* cumulative partition exceeds the draw, PMAX when there is none; it is   *)
(* always an index in 0..PMAX.                                             *)
(***************************************************************************)
InverseCdfLobe(apPdf, r) ==
    LET cum[i \in 0..(PMAX - 1)] ==
            IF i = 0 THEN apPdf[0] ELSE fadd(cum[i - 1], apPdf[i])
        hits == { i \in 0..(PMAX - 1) : flt(r, cum[i]) }
    IN  IF hits = {} THEN PMAX
        ELSE CHOOSE i \in hits : \A j \in hits : i <= j

C8_LobeSelection ==
    Returned("sample_f") =>
        /\ last[1].p \in Lobes
        /\ last[1].p = InverseCdfLobe(last[1].lobe.apPdf, last[1].u[1])

\* The scan ran past every lobe of a finite partition: the last lobe took
\* the residual mass.
C8_Witness ==
    /\ ValidHair
    /\ Returned("sample_f")
    /\ last[1].p = PMAX
    /\ \A i \in Lobes : FiniteNonNeg(last[1].lobe.apPdf[i])
    /\ last[1].lobe.apPdf[PMAX] > 0

(***************************************************************************)
(* C9.  Per-lobe attenuation.  As claimed: lobe 0 is f, lobe 1 is          *)
(* T^2 * (1 - f), lobe i (2 <= i < PMAX) is lobe i-1 times T times f.      *)
(* As amended: lobe 1 is T * (1 - f)^2.  Products are compared up to two   *)
(* grid units of rounding.                                                 *)
(***************************************************************************)
ChainHolds(t) ==
    /\ t.ap[0] = SpecOf(t.f)
    /\ \A i \in 2..(PMAX - 1) : \A c \in Channels :
           Within(t.ap[i][c], fmul(t.ap[i - 1][c], fmul(t.T[c], t.f)), 2)

C9_Original ==
    (Constructed /\ last # <<>>) =>
        LET t == last[1].lobe
        IN  /\ ChainHolds(t)
            /\ \A c \in Channels :
                   Within(t.ap[1][c], fmul(SQR(t.T[c]), fsub(Scale, t.f)), 2)

C9_LobeAttenuation ==
    (Constructed /\ last # <<>>) =>
        LET t == last[1].lobe
        IN  /\ ChainHolds(t)
            /\ \A c \in Channels :
                   Within(t.ap[1][c],
                          fmul(fmul(t.T[c], fsub(Scale, t.f)), fsub(Scale, t.f)), 2)

\* Ap has run on a transmittance and a reflectance for which the two
\* readings of lobe 1 are far apart.
C9_Witness ==
    /\ ValidHair
    /\ last # <<>>
    /\ LET t == last[1].lobe
       IN  \E c \in Channels :
               /\ t.T[c] < Scale
               /\ t.ap[1][c] > 1000
               /\ ~Within(fmul(SQR(t.T[c]), fsub(Scale, t.f)),
                          fmul(fmul(t.T[c], fsub(Scale, t.f)), fsub(Scale, t.f)), 100)

(***************************************************************************)
(* C10.  The merged tail ap[PMAX] closes the geometric series of the       *)
(* remaining bounces: for 0 <= T*f < 1 it satisfies                        *)
(* ap[PMAX] = ap[PMAX-1]*f*T + ap[PMAX]*f*T, and it is the sum of the      *)
(* terms a_k = a_(k-1)*T*f, k >= PMAX, continued from ap[PMAX-1] (summed   *)
(* until they vanish on the grid; one grid unit of rounding per term).     *)
(***************************************************************************)
\* The cap on the number of tail terms summed.
MaxTailTerms == 40

RECURSIVE TailSum(_, _, _, _)
TailSum(prev, q, k, acc) ==
    LET a == fmul(prev, q)
    IN  IF a = 0 \/ k >= MaxTailTerms THEN <<acc, k>>
        ELSE TailSum(a, q, k + 1, acc + a)

C10_TailClosesGeometricSeries ==
    (Constructed /\ last # <<>>) =>
        LET t == last[1].lobe
        IN  \A c \in Channels :
                LET q == fmul(t.T[c], t.f)
                    s == TailSum(t.ap[PMAX - 1][c], q, 0, 0)
                IN  (0 <= q /\ q < Scale) =>
                        /\ Within(t.ap[PMAX][c],
                                  fadd(fmul(fmul(t.ap[PMAX - 1][c], t.f), t.T[c]),
                                       fmul(fmul(t.ap[PMAX][c], t.f), t.T[c])), 2)
                        /\ (s[2] < MaxTailTerms =>
                                Within(t.ap[PMAX][c], s[1], s[2] + 2))

\* A tail of several non-vanishing bounces has been merged.
C10_Witness ==
    /\ ValidHair
    /\ last # <<>>
    /\ LET t == last[1].lobe
       IN  \E c \in Channels :
               /\ fmul(t.T[c], t.f) >= 2000
               /\ fmul(t.T[c], t.f) < Scale
               /\ t.ap[PMAX][c] >= 100
               /\ TailSum(t.ap[PMAX - 1][c], fmul(t.T[c], t.f), 0, 0)[2] >= 4

(***************************************************************************)
(* C11.  The cuticle-tilt correction is one function of the lobe index at  *)
(* its four sites (Hair::f, Hair::pdf, the direction and the density of    *)
(* Hair::sample_f): lobe 0 is rotated forward by table entry 1, lobe 1     *)
(* backward by entry 0, lobe 2 backward by entry 2, the merged tail lobe   *)
(* PMAX is not rotated, and only entries 0..PMAX-1 of the table are read.  *)
(***************************************************************************)
\* <<sin, cos>> rotated forward by the angle of table entry k.
RotateForward(h, k, sinTheta, cosTheta) ==
    <<fadd(fmul(sinTheta, h.m_cos2kAlpha[k]), fmul(cosTheta, h.m_sin2kAlpha[k])),
      fsub(fmul(cosTheta, h.m_cos2kAlpha[k]), fmul(sinTheta, h.m_sin2kAlpha[k]))>>

\* <<sin, cos>> rotated backward by the angle of table entry k.
RotateBackward(h, k, sinTheta, cosTheta) ==
    <<fsub(fmul(sinTheta, h.m_cos2kAlpha[k]), fmul(cosTheta, h.m_sin2kAlpha[k])),
      fadd(fmul(cosTheta, h.m_cos2kAlpha[k]), fmul(sinTheta, h.m_sin2kAlpha[k]))>>

ExpectedTilt(h, p, sinTheta, cosTheta) ==
    IF p = 0 THEN RotateForward(h, 1, sinTheta, cosTheta)
    ELSE IF p = 1 THEN RotateBackward(h, 0, sinTheta, cosTheta)
    ELSE IF p = 2 THEN RotateBackward(h, 2, sinTheta, cosTheta)
    ELSE <<sinTheta, cosTheta>>

\* The longitudinal sine and cosine of the direction wi of the last call.
LastSinCos ==
    CHOOSE r \in { <<x, ssqrt(fsub(Scale, SQR(x)))>> : x \in {last[1].wi[1]} } : TRUE

C11_SameTiltEverywhere ==
    (Constructed /\ last # <<>>) =>
        \A sc \in {LastSinCos} : \A p \in Lobes :
            /\ TiltF(hair[1], p, sc[1], sc[2]) = ExpectedTilt(hair[1], p, sc[1], sc[2])
            /\ TiltPdf(hair[1], p, sc[1], sc[2]) = ExpectedTilt(hair[1], p, sc[1], sc[2])
            /\ TiltSample(hair[1], p, sc[1], sc[2]) = ExpectedTilt(hair[1], p, sc[1], sc[2])
            /\ TiltSamplePdf(hair[1], p, sc[1], sc[2]) = ExpectedTilt(hair[1], p, sc[1], sc[2])
            /\ TiltReads(p) \subseteq 0..(PMAX - 1)
            /\ TiltReads(p) \subseteq DOMAIN hair[1].m_sin2kAlpha
            /\ TiltReads(p) \subseteq DOMAIN hair[1].m_cos2kAlpha

\* A sampled direction of lobe 0 on which the forward and the backward
\* rotation differ and the tilt changes the pair.
C11_Witness ==
    /\ ValidHair
    /\ Returned("sample_f")
    /\ last[1].p = 0
    /\ TiltSample(hair[1], 0, LastSinCos[1], LastSinCos[2]) # LastSinCos
    /\ TiltSample(hair[1], 0, LastSinCos[1], LastSinCos[2])
           # TiltSample(hair[1], 1, LastSinCos[1], LastSinCos[2])
    /\ TiltSample(hair[1], PMAX, LastSinCos[1], LastSinCos[2]) = LastSinCos

(***************************************************************************)
(* C12.  Angle wrap in Np.  On every call the two loops that adjust dphi   *)
(* by 2*pi end, and the value handed to TrimmedLogistic lies in the closed *)
(* range [-pi, pi]: the second loop runs while dphi < -PI, so dphi = -PI   *)
(* is handed on as it is.  C12_Original states the half-open range         *)
(* (-pi, pi].  The calls are those of Hair::f on the directions wo, wi of  *)
(* the last operation (sample_f ends in f( wo , wi )), for p = 0..PMAX-1.  *)
(***************************************************************************)
\* phi = phiI - phiO of the last call.
LastPhi ==
    fsub(fatan2(last[1].wi[2], last[1].wi[3]), fatan2(last[1].wo[2], last[1].wo[3]))

\* <<value handed to TrimmedLogistic, passes of the two loops>> per lobe.
LastWraps ==
    CHOOSE r \in
        { [p \in 0..(PMAX - 1) |->
              <<NpWrap(phi, p, g.gammaO, g.gammaT), NpWrapSteps(phi, p, g.gammaO, g.gammaT)>>]
          : phi \in {LastPhi}, g \in {HairGamma(hair[1], last[1].wo)} } : TRUE

WrapEnds(w) == w[2][1] < MaxWrapSteps /\ w[2][2] < MaxWrapSteps

C12_Original ==
    (ValidHair /\ last # <<>> /\ IsFinite(LastPhi)) =>
        \A w \in {LastWraps} : \A p \in 0..(PMAX - 1) :
            /\ WrapEnds(w[p])
            /\ IsFinite(w[p][1])
            /\ w[p][1] > -PI
            /\ w[p][1] <= PI

C12_WrapIntoClosedRange ==
    (ValidHair /\ last # <<>> /\ IsFinite(LastPhi)) =>
        \A w \in {LastWraps} : \A p \in 0..(PMAX - 1) :
            /\ WrapEnds(w[p])
            /\ IsFinite(w[p][1])
            /\ w[p][1] >= -PI
            /\ w[p][1] <= PI

\* A call in which the second loop ran for one lobe and dphi = -PI was
\* handed on without adjustment for another.
C12_Witness ==
    /\ ValidHair
    /\ last # <<>>
    /\ IsFinite(LastPhi)
    /\ \E p \in 0..(PMAX - 1) : LastWraps[p][2][2] >= 1
    /\ \E p \in 0..(PMAX - 1) : LastWraps[p][1] = -PI /\ LastWraps[p][2] = <<0, 0>>

(***************************************************************************)
(* C13.  After construction the tilt table holds PMAX = 3 sine/cosine      *)
(* pairs, indices 0..PMAX-1; entry k is the sine and the cosine of 2^k     *)
(* times the base tilt of 2 degrees, 2*pi/180 radians; entries 1 and 2     *)
(* follow from the entry before by sin' = 2*cos*sin, cos' = cos^2 - sin^2; *)
(* every pair has sin^2 + cos^2 = 1.  Values are compared up to 3 grid     *)
(* units.                                                                  *)
(***************************************************************************)
\* 2 degrees in radians.
TwoDegrees == fdiv(fmul(2 * Scale, PI), 180 * Scale)

RECURSIVE TwoToThe(_)
TwoToThe(k) == IF k = 0 THEN 1 ELSE 2 * TwoToThe(k - 1)

C13_TiltTable ==
    Constructed =>
        \A h \in {hair[1]} :
            /\ DOMAIN h.m_sin2kAlpha = 0..(PMAX - 1)
            /\ DOMAIN h.m_cos2kAlpha = 0..(PMAX - 1)
            /\ Cardinality(DOMAIN h.m_sin2kAlpha) = 3
            /\ \A k \in 0..(PMAX - 1) :
                   /\ Within(h.m_sin2kAlpha[k],
                             fsin(fmul(FromInt(TwoToThe(k)), TwoDegrees)), 3)
                   /\ Within(h.m_cos2kAlpha[k],
                             fcos(fmul(FromInt(TwoToThe(k)), TwoDegrees)), 3)
                   /\ Within(fadd(SQR(h.m_sin2kAlpha[k]), SQR(h.m_cos2kAlpha[k])), Scale,
                             3)
            /\ \A k \in 1..(PMAX - 1) :
                   /\ h.m_sin2kAlpha[k]
                          = fmul(fmul(2 * Scale, h.m_cos2kAlpha[k - 1]), h.m_sin2kAlpha[k - 1])
                   /\ h.m_cos2kAlpha[k]
                          = fsub(SQR(h.m_cos2kAlpha[k - 1]), SQR(h.m_sin2kAlpha[k - 1]))

=========================================================================
